---- MODULE Spec2Model ----
(***************************************************************************)
(* Model of biblgpt's conversion path: the settings store                  *)
(* (src/lib/stores/settings.ts), the OpenAIService instance owned by the   *)
(* page (src/lib/services/openaiService.ts), the prompt template loader    *)
(* and the page script with its debounced convertReference.                *)
(*                                                                         *)
(* JavaScript is single-threaded: every action below is one run-to-        *)
(* completion stretch of code, from one await (or timer, or user event) to *)
(* the next await.                                                         *)
(*                                                                         *)
(* Texts are TLA+ strings, handled with Len, SubSeq and \o.  A string      *)
(* literal of this language cannot hold a backtick, so the apostrophe      *)
(* stands for the backtick (U+0060) in every text below: "'''" is the      *)
(* markdown fence.                                                         *)
(***************************************************************************)
EXTENDS Integers, Sequences, FiniteSets, TLC

VARIABLES
    settingsStore,            \* settings.ts:25  the writable store's value
    config,                   \* openaiService.ts:20  this.config, set by the constructor
    client,                   \* openaiService.ts:19  <<>> is null, <<k>> a client built with key k
    resultCache,              \* openaiService.ts:21  Map trimmed input -> BibTeX
    inflightAbortController,  \* openaiService.ts:22  Null or the tracked controller
    aborted,                  \* the outstanding requests whose signal is aborted -> who aborted
    timeoutIds,               \* pending timeout timers of makeAPIRequest (openaiService.ts:145)
    calls,                    \* the convertToBibTeX invocations made so far, in order
    cachedPromptTemplate,     \* promptLoader.ts:75  "" is null
    inputText,                \* page state, promptLoader.ts:86
    outputText,               \* page state, promptLoader.ts:87
    isConverting,             \* page state, promptLoader.ts:88
    error,                    \* page state, promptLoader.ts:89
    conversionTimeout,        \* the debounce timer (promptLoader.ts:116): NoTimer, or the
                              \* ms left before it fires
    modal                     \* SettingsModal.svelte:10-17  open, apiKey, selectedModel, error,
                              \* isValidating; and, for the properties, the settings the
                              \* store held when handleSave last started

serviceVars == <<config, client, resultCache, inflightAbortController, aborted, timeoutIds, calls,
                 cachedPromptTemplate>>
pageVars == <<inputText, outputText, isConverting, error, conversionTimeout>>
vars == <<settingsStore, serviceVars, pageVars, modal>>

(***************************************************************************)
(* Bounds of the model.                                                    *)
(***************************************************************************)
\* convertToBibTeX invocations in one behaviour of Spec and of SpecService
MaxCalls == 2
\* convertToBibTeX invocations in one behaviour of SpecCall
MaxSingle == 1
\* convertToBibTeX invocations in one behaviour of SpecPage
MaxPageCalls == 1
\* the largest maxRetries a service of SpecRetry is constructed with
MaxRetries == 4
\* convertToBibTeX invocations in one behaviour of SpecSettings
MaxKeyCalls == 2
\* convertToBibTeX invocations in one behaviour of SpecLive
MaxLiveCalls == 2

(***************************************************************************)
(* Text functions.                                                         *)
(***************************************************************************)
\* JavaScript's \s and the characters String.prototype.trim removes
IsWs(ch) == ch \in {" ", "\n", "\t"}

RECURSIVE TrimStart(_)
TrimStart(s) ==
    IF s # "" /\ IsWs(SubSeq(s, 1, 1)) THEN TrimStart(SubSeq(s, 2, Len(s))) ELSE s

RECURSIVE TrimEnd(_)
TrimEnd(s) ==
    IF s # "" /\ IsWs(SubSeq(s, Len(s), Len(s))) THEN TrimEnd(SubSeq(s, 1, Len(s) - 1)) ELSE s

\* String.prototype.trim
Trim(s) == TrimEnd(TrimStart(s))

\* String.prototype.includes
Includes(s, sub) ==
    \E i \in 1..(Len(s) - Len(sub) + 1) : SubSeq(s, i, i + Len(sub) - 1) = sub

\* the letters of "bibtex", for the i flag of the regular expressions
LowerChar(ch) ==
    CASE ch = "B" -> "b"
      [] ch = "I" -> "i"
      [] ch = "T" -> "t"
      [] ch = "E" -> "e"
      [] ch = "X" -> "x"
      [] OTHER -> ch

RECURSIVE ToLower(_)
ToLower(s) ==
    IF s = "" THEN "" ELSE LowerChar(SubSeq(s, 1, 1)) \o ToLower(SubSeq(s, 2, Len(s)))

Fence == "'''"
FenceBibtex == "'''bibtex"

\* s.replace(/```bibtex\s*/gi, ''): every match, left to right, is removed
RECURSIVE ReplaceFenceBibtex(_)
ReplaceFenceBibtex(s) ==
    IF s = "" THEN ""
    ELSE IF Len(s) >= Len(FenceBibtex)
            /\ ToLower(SubSeq(s, 1, Len(FenceBibtex))) = FenceBibtex
         THEN ReplaceFenceBibtex(TrimStart(SubSeq(s, Len(FenceBibtex) + 1, Len(s))))
         ELSE SubSeq(s, 1, 1) \o ReplaceFenceBibtex(SubSeq(s, 2, Len(s)))

\* s.replace(/```\s*$/gi, ''): the leftmost fence followed only by whitespace up
\* to the end of the text is removed with that whitespace
RECURSIVE ReplaceFenceAtEnd(_)
ReplaceFenceAtEnd(s) ==
    IF Len(s) < Len(Fence) THEN s
    ELSE IF SubSeq(s, 1, Len(Fence)) = Fence
            /\ TrimStart(SubSeq(s, Len(Fence) + 1, Len(s))) = ""
         THEN ""
         ELSE SubSeq(s, 1, 1) \o ReplaceFenceAtEnd(SubSeq(s, 2, Len(s)))

\* OpenAIService.cleanBibTeXResponse
cleanBibTeXResponse(response) == Trim(ReplaceFenceAtEnd(ReplaceFenceBibtex(response)))

(***************************************************************************)
(* Data the environment supplies.  "" stands for every falsy content of    *)
(* completion.choices[0]?.message?.content (no choices, null, undefined,   *)
(* the empty string).                                                      *)
(***************************************************************************)
\* what the user types, or what a caller passes to convertToBibTeX
Inputs == {"", " ", "a", " a\n", "b"}
FewInputs == {"", "a", " a\n"}

\* what the user types into the page in Spec: texts with something to convert
PageInputs == {"a", "b"}

\* keys given to settingsActions.setApiKey
ApiKeys == {"", " ", "sk-1"}
FewApiKeys == {"sk-1"}
\* keys stored one after the other during the life of one service
ChangingApiKeys == {" ", "sk-1", "sk-2"}

\* models given to settingsActions.setModel
Models == {"gpt-5-nano", "gpt-5-mini"}

Contents == {"", "@a", " @b\n", "'''bibtex\n@a\n'''", "'''BibTeX\n@b\n'''\n",
             "'''\n@a\n'''", "'''bibtex\n'''"}
FewContents == {"", "@a", "'''bibtex\n'''"}
PageContents == {"@a"}
\* two answers the endpoint can give to the same prompt
LiveContents == {"@a", "@b"}

\* a thrown value: an Error with a message, or a value that is no Error
\* (`by` is set on an abort only, see AbortError)
Thrown(isError, message) == [isError |-> isError, message |-> message, by |-> ""]

\* what the await of chat.completions.create can reject with on its own
Rejections == {Thrown(TRUE, "401 Incorrect API key provided"),
               Thrown(TRUE, "Connection error."),
               Thrown(TRUE, ""),
               Thrown(FALSE, "boom")}
FewRejections == {Thrown(TRUE, "Connection error.")}
\* one failure of each class the endpoint reports, and a rate-limit failure
\* whose text names the key
ClassRejections == {Thrown(TRUE, "401 Incorrect API key provided"),
                    Thrown(TRUE, "429 rate limit reached"),
                    Thrown(TRUE, "429 rate limit reached for API key sk-1"),
                    Thrown(TRUE, "429 insufficient_quota"),
                    Thrown(TRUE, "Connection error.")}

\* the client library rejects an aborted request with this error; `by` names the
\* call site that aborted the signal, which the error itself does not carry
AbortError(by) == [isError |-> TRUE, message |-> "Request was aborted.", by |-> by]

\* openaiService.ts:174
NoContentError == Thrown(TRUE, "No response content received from OpenAI")

\* the text of static/prompts/bibtex-converter.txt, before trimming
PromptFile == "You are an expert.\n"

\* promptLoader.ts:39  getDefaultPromptTemplate
getDefaultPromptTemplate == "You are an expert academic reference converter."

(***************************************************************************)
(* settings.ts                                                             *)
(***************************************************************************)
defaultSettings == [apiKey |-> "", isConfigured |-> FALSE, model |-> "gpt-5-nano"]

\* settingsActions.setApiKey
setApiKey(settings, apiKey) ==
    [settings EXCEPT !.apiKey = apiKey, !.isConfigured = Len(Trim(apiKey)) > 0]

\* settingsActions.setModel
setModel(settings, model) == [settings EXCEPT !.model = model]

\* settingsActions.clearApiKey
clearApiKey(settings) == [settings EXCEPT !.apiKey = "", !.isConfigured = FALSE]

\* String.prototype.startsWith
StartsWith(s, prefix) == Len(s) >= Len(prefix) /\ SubSeq(s, 1, Len(prefix)) = prefix

\* settingsActions.validateApiKey
validateApiKey(apiKey) == StartsWith(Trim(apiKey), "sk-") /\ Len(Trim(apiKey)) > 20

(***************************************************************************)
(* SettingsModal.svelte                                                    *)
(***************************************************************************)
\* what the user types into the key field: nothing, a blank, a key too short
\* for validateApiKey, a key of the expected form
ModalKeys == {"", " ", "sk-1", "sk-0123456789abcdefghij"}

KeyRequiredMessage == "API key is required"
KeyFormatMessage == "Invalid API key format. OpenAI API keys should start with \"sk-\""
KeyInvalidMessage == "Invalid API key. Please check your OpenAI API key."
KeyFailedMessage == "Failed to validate API key. Please check your key and try again."

\* the modal as mounted, closed (SettingsModal.svelte:10-17)
ClosedModal ==
    [open |-> FALSE, apiKey |-> "", selectedModel |-> "", error |-> "",
     isValidating |-> FALSE, before |-> defaultSettings]

\* the modal's subscription to the store (SettingsModal.svelte:20-26), run at
\* once on subscribing and on every update of the store
Subscribed(m, settings) ==
    [m EXCEPT !.apiKey = settings.apiKey, !.selectedModel = settings.model]

(***************************************************************************)
(* openaiService.ts: the service's configuration and messages.             *)
(***************************************************************************)
\* the partial configuration of `new OpenAIService()` (promptLoader.ts:112)
NoConfig == [k \in {} |-> 0]

\* new OpenAIService(given): this.config (openaiService.ts:24-42).  The model
\* is read from the settings store once, here; a field of `given` replaces
\* the default of the same name (...config), whatever its value.
OpenAIService(given, settings) ==
    LET model == IF "model" \in DOMAIN given /\ given.model # "" THEN given.model
                 ELSE IF settings.model # "" THEN settings.model
                 ELSE "gpt-5-nano"
    IN [model |-> model,
        maxRetries |-> IF "maxRetries" \in DOMAIN given THEN given.maxRetries ELSE 3,
        timeout |-> IF "timeout" \in DOMAIN given THEN given.timeout ELSE 30000]

\* openaiService.ts:181  (this.config.maxRetries || 3)
MaxAttempts(cfg) == IF cfg.maxRetries # 0 THEN cfg.maxRetries ELSE 3

\* the base of the wait before a retry (openaiService.ts:183)
BackoffBase == 1000

NotConfiguredMessage == "OpenAI API key not configured. Please set your API key in settings."
EmptyInputMessage == "Please provide an APA reference to convert."
UnexpectedMessage == "An unexpected error occurred. Please try again."

\* OpenAIService.getErrorMessage
getErrorMessage(err) ==
    IF err.isError
    THEN CASE Includes(err.message, "API key") ->
                "Invalid API key. Please check your OpenAI API key in settings."
           [] Includes(err.message, "timeout") -> "Request timed out. Please try again."
           [] Includes(err.message, "rate limit") ->
                "Rate limit exceeded. Please wait a moment and try again."
           [] Includes(err.message, "insufficient_quota") ->
                "API quota exceeded. Please check your OpenAI billing."
           [] Includes(err.message, "network") \/ Includes(err.message, "fetch") ->
                "Network error. Please check your internet connection and try again."
           [] OTHER -> err.message
    ELSE UnexpectedMessage

\* ConversionResult
Success(bibtex) == [success |-> TRUE, bibtex |-> bibtex]
Failure(message) == [success |-> FALSE, error |-> message]
\* the promise of a call that has not resolved
Pending == [pending |-> TRUE]

\* an AbortController is named by the call and the attempt that created it
Null == <<0, 0>>
Ctl(c) == <<c, calls[c].attempt>>

\* the request sent with this controller's signal has not settled
Outstanding(ctl) ==
    /\ ctl[1] \in DOMAIN calls
    /\ calls[ctl[1]].pc = "request"
    /\ calls[ctl[1]].attempt = ctl[2]

\* AbortController.abort(): a signal aborts once; `by` is the call site.  The
\* signal of a request that has settled is read by nothing, and is not kept.
Abort(ab, ctl, by) ==
    IF ctl \in DOMAIN ab \/ ~Outstanding(ctl) THEN ab
    ELSE [k \in DOMAIN ab \cup {ctl} |-> IF k = ctl THEN by ELSE ab[k]]

\* the signals without the one of a request that settles
Settled(ab, ctl) == [k \in DOMAIN ab \ {ctl} |-> ab[k]]

\* mutant of cancelInFlight: the tracked request is forgotten but not aborted
cancelInFlight_NoAbort(ab, inflight) == ab

\* OpenAIService.cancelInFlight, as a function of the signals and the tracked
\* controller: the signals afterwards (the tracked controller becomes null)
cancelInFlight(ab, inflight) ==
    IF inflight # Null THEN Abort(ab, inflight, "cancelInFlight") ELSE ab

\* Map.set
MapSet(m, k, v) == [x \in DOMAIN m \cup {k} |-> IF x = k THEN v ELSE m[x]]

\* the catch block of the call's current attempt holds no error
NoError == Thrown(FALSE, "")

\* a convertToBibTeX invocation: its argument, who awaits it, where it stands
\* (pc), the attempt parameter of its makeAPIRequest (0 before the first), what
\* each of its awaited requests produced ("content" or "failed"), the delays of
\* its backoff timers, the error its catch block holds, the content of its last
\* completion, the model named in its last request, whether one of its requests
\* was aborted by cancelInFlight, and what its promise resolved to
NewCall(apaReference, origin) ==
    [input |-> apaReference, origin |-> origin, pc |-> "entry", attempt |-> 0,
     outcomes |-> <<>>, waits |-> <<>>, caught |-> NoError, content |-> "",
     model |-> "", cancelled |-> FALSE, result |-> Pending]

\* mutant of NotConfigured: the key is not checked
NotConfigured_Unchecked(apiKey) == FALSE

\* openaiService.ts:64  if (!apiKey)
NotConfigured(apiKey) == apiKey = ""

\* mutant of IsEmptyInput: the input is tested without trimming
IsEmptyInput_Untrimmed(apaReference) == apaReference = ""

\* openaiService.ts:77  if (!apaReference.trim())
IsEmptyInput(apaReference) == Trim(apaReference) = ""

\* mutant of NoContent: an empty content is taken as a text
NoContent_Accepted(content) == FALSE

\* openaiService.ts:173  if (!content)
NoContent(content) == content = ""

\* openaiService.ts:86-87  the cached text for the call's input, "" when there is none
CacheGet(cache, apaReference) ==
    IF Trim(apaReference) \in DOMAIN cache THEN cache[Trim(apaReference)] ELSE ""

\* openaiService.ts:100-102  cache successful results
CachePut(cache, apaReference, bibtexResult) ==
    IF bibtexResult # "" THEN MapSet(cache, Trim(apaReference), bibtexResult) ELSE cache

\* openaiService.ts:181  the retry condition of the catch block
ShouldRetry(attempt) == attempt < MaxAttempts(config)

\* mutant of BackoffDelay: the wait doubles with every retry
BackoffDelay_Exponential(attempt) == BackoffBase * 2^(attempt - 1)

\* mutant of BackoffDelay: the same wait before every retry
BackoffDelay_Constant(attempt) == BackoffBase

\* openaiService.ts:183  the wait before the next attempt, in ms
BackoffDelay(attempt) == BackoffBase * attempt

\* mutant of SetTimeoutTimer: no timer is armed
SetTimeoutTimer_None(timers, ctl) == timers

\* openaiService.ts:145-151  setTimeout(() => abortController.abort(), this.config.timeout)
SetTimeoutTimer(timers, ctl) == timers \cup {[ctl |-> ctl, ms |-> config.timeout]}

\* mutant of TimerTarget: the timer aborts whatever request the service tracks
TimerTarget_Tracked(t, inflight) == inflight

\* openaiService.ts:147  abortController.abort(): the controller the timer's
\* callback closes over, that of its own attempt
TimerTarget(t, inflight) == t.ctl

\* openaiService.ts:168  clearTimeout(timeoutId)
ClearTimeoutTimer(timers, ctl) == {t \in timers : t.ctl # ctl}

(***************************************************************************)
(* +page.svelte (script part, promptLoader.ts:77-193)                      *)
(***************************************************************************)
\* no debounce timer is pending
NoTimer == -1

\* mutant of DebounceDelay: the delay the documentation states
DebounceDelay_Documented == 1000

\* promptLoader.ts:123  the delay of the debounce timer, in ms
DebounceDelay == 500

PageNotConfiguredMessage == "Please configure your OpenAI API key in settings first."
ConversionFailedMessage == "Conversion failed. Please try again."

\* convertReference after its await: what the page shows for a result
\* (promptLoader.ts:144-150)
ShownOutput(r) == IF r.success THEN r.bibtex ELSE ""
ShownError(r) ==
    IF r.success THEN ""
    ELSE IF r.error # "" THEN r.error ELSE ConversionFailedMessage

(***************************************************************************)
(* Steps shared by the actions.                                            *)
(***************************************************************************)
\* The call c resolves with r.  The continuation of the convertReference that
\* awaits it runs in the same microtask checkpoint (promptLoader.ts:142-157).
Finish(cs, c, r) ==
    /\ calls' = [cs EXCEPT ![c].pc = "done", ![c].result = r]
    /\ IF cs[c].origin = "page"
       THEN /\ outputText' = ShownOutput(r)
            /\ error' = ShownError(r)
            /\ isConverting' = FALSE
       ELSE UNCHANGED <<outputText, error, isConverting>>

\* makeAPIRequest up to its await (openaiService.ts:134-166): cancel the tracked
\* request, track a new controller, arm the timeout, send the request
makeAPIRequest(cs, c, attempt, ab, inflight) ==
    /\ aborted' = cancelInFlight(ab, inflight)
    /\ inflightAbortController' = <<c, attempt>>
    /\ timeoutIds' = SetTimeoutTimer(timeoutIds, <<c, attempt>>)
    /\ calls' = [cs EXCEPT ![c].pc = "request", ![c].attempt = attempt,
                            ![c].caught = NoError, ![c].model = config.model]

\* mutant of Catch: the catch block neither retries nor rethrows, and the promise
\* of the call stays unsettled
Catch_Swallowed(c, err) ==
    /\ calls' = [calls EXCEPT ![c].pc = "hung", ![c].caught = err]
    /\ UNCHANGED <<outputText, error, isConverting>>

\* the catch block of makeAPIRequest (openaiService.ts:179-187) and, when it
\* rethrows, the catch block of convertToBibTeX (openaiService.ts:108-114)
Catch(c, err) ==
    LET byCancel == err = AbortError("cancelInFlight")
    IN IF ShouldRetry(calls[c].attempt)
       THEN /\ calls' = [calls EXCEPT ![c].pc = "backoff", ![c].caught = err,
                                      ![c].cancelled = @ \/ byCancel,
                                      ![c].outcomes = Append(@, "failed"),
                                      ![c].waits = Append(@, BackoffDelay(calls[c].attempt))]
            /\ UNCHANGED <<outputText, error, isConverting>>
       ELSE Finish([calls EXCEPT ![c].caught = err, ![c].cancelled = @ \/ byCancel,
                                 ![c].outcomes = Append(@, "failed")],
                   c, Failure(getErrorMessage(err)))

\* convertReference reaches its await with the call unresolved
\* (promptLoader.ts:138-142): isConverting = true, error = ''
Awaiting(origin) ==
    IF origin = "page"
    THEN isConverting' = TRUE /\ error' = "" /\ outputText' = outputText
    ELSE UNCHANGED <<outputText, error, isConverting>>

\* convertToBibTeX from its entry to its first await or its return
\* (openaiService.ts:57-97).  With the template cached, loadPromptTemplate
\* resolves in the same microtask checkpoint and makeAPIRequest follows at once.
\* ab and inflight are the signals and the tracked controller at entry.
convertToBibTeX(apaReference, origin, ab, inflight) ==
    LET c == Len(calls) + 1
        cs == Append(calls, NewCall(apaReference, origin))
        apiKey == settingsStore.apiKey
        untouched == /\ aborted' = ab
                     /\ inflightAbortController' = inflight
                     /\ timeoutIds' = timeoutIds
    IN  /\ UNCHANGED <<resultCache, cachedPromptTemplate>>
        /\ IF NotConfigured(apiKey)
           THEN /\ client' = client
                /\ untouched
                /\ Finish(cs, c, Failure(NotConfiguredMessage))
           ELSE /\ client' = IF client = <<>> THEN <<apiKey>> ELSE client
                /\ IF IsEmptyInput(apaReference)
                   THEN untouched /\ Finish(cs, c, Failure(EmptyInputMessage))
                   ELSE IF CacheGet(resultCache, apaReference) # ""
                   THEN untouched
                        /\ Finish(cs, c, Success(CacheGet(resultCache, apaReference)))
                   ELSE IF cachedPromptTemplate # ""
                   THEN /\ makeAPIRequest(cs, c, 1, ab, inflight)
                        /\ Awaiting(origin)
                   ELSE /\ untouched
                        /\ calls' = [cs EXCEPT ![c].pc = "template"]
                        /\ Awaiting(origin)

(***************************************************************************)
(* The state after construction: a fresh service (the page's onMount), an  *)
(* empty page, no template fetched.  The service's configuration is built  *)
(* from the settings the store holds then.                                 *)
(***************************************************************************)
Fresh ==
    /\ client = <<>>
    /\ resultCache = [k \in {} |-> ""]
    /\ inflightAbortController = Null
    /\ aborted = [k \in {} |-> ""]
    /\ timeoutIds = {}
    /\ calls = <<>>
    /\ cachedPromptTemplate = ""
    /\ inputText = ""
    /\ outputText = ""
    /\ isConverting = FALSE
    /\ error = ""
    /\ conversionTimeout = NoTimer
    /\ modal = Subscribed(ClosedModal, settingsStore)

\* the default settings (settings.ts:18-25)
InitDefault ==
    /\ settingsStore = defaultSettings
    /\ config = OpenAIService(NoConfig, settingsStore)
    /\ Fresh

\* the settings an earlier session stored (settings.ts:28-41)
InitStored ==
    /\ settingsStore \in {defaultSettings} \cup {setApiKey(defaultSettings, k) : k \in ApiKeys}
    /\ config = OpenAIService(NoConfig, settingsStore)
    /\ Fresh

\* a caller that constructs its service with a maxRetries of its own, a key
\* being stored
InitRetry ==
    /\ settingsStore = setApiKey(defaultSettings, "sk-1")
    /\ \E n \in 0..MaxRetries : config = OpenAIService([maxRetries |-> n], settingsStore)
    /\ Fresh

\* a key is stored; the service has the default configuration
InitLive ==
    /\ settingsStore = setApiKey(defaultSettings, "sk-1")
    /\ config = OpenAIService(NoConfig, settingsStore)
    /\ Fresh

\* the settings an earlier session stored with a key and a model
InitPage ==
    /\ settingsStore \in {setModel(setApiKey(defaultSettings, k), m) :
                             k \in FewApiKeys, m \in Models}
    /\ config = OpenAIService(NoConfig, settingsStore)
    /\ Fresh

(***************************************************************************)
(* Settings.                                                               *)
(***************************************************************************)
SetApiKey(apiKey) ==
    /\ settingsStore' = setApiKey(settingsStore, apiKey)
    /\ settingsStore' # settingsStore
    /\ modal' = Subscribed(modal, settingsStore')
    /\ UNCHANGED <<serviceVars, pageVars>>

ClearApiKey ==
    /\ settingsStore' = clearApiKey(settingsStore)
    /\ settingsStore' # settingsStore
    /\ modal' = Subscribed(modal, settingsStore')
    /\ UNCHANGED <<serviceVars, pageVars>>

\* the user selects a model; the page's service was constructed before
SetModel(model) ==
    /\ settingsStore' = setModel(settingsStore, model)
    /\ settingsStore' # settingsStore
    /\ modal' = Subscribed(modal, settingsStore')
    /\ UNCHANGED <<serviceVars, pageVars>>

(***************************************************************************)
(* The settings modal.                                                     *)
(***************************************************************************)
\* the page's Settings button (promptLoader.ts:225)
OpenSettings ==
    /\ ~modal.open
    /\ modal' = [modal EXCEPT !.open = TRUE]
    /\ UNCHANGED <<settingsStore, serviceVars, pageVars>>

\* the user edits the key field (bind:value, disabled while validating)
TypeApiKey(apiKey) ==
    /\ modal.open /\ ~modal.isValidating
    /\ apiKey # modal.apiKey
    /\ modal' = [modal EXCEPT !.apiKey = apiKey]
    /\ UNCHANGED <<settingsStore, serviceVars, pageVars>>

\* handleSave up to its first await (SettingsModal.svelte:28-50).  Each update
\* of the store runs the modal's subscription before the next statement.
handleSave ==
    /\ modal.open /\ ~modal.isValidating
    /\ UNCHANGED <<serviceVars, pageVars>>
    /\ IF Trim(modal.apiKey) = ""
       THEN /\ modal' = [modal EXCEPT !.error = KeyRequiredMessage, !.before = settingsStore]
            /\ UNCHANGED settingsStore
       ELSE IF ~validateApiKey(modal.apiKey)
       THEN /\ modal' = [modal EXCEPT !.error = KeyFormatMessage, !.before = settingsStore]
            /\ UNCHANGED settingsStore
       ELSE LET s1 == setApiKey(settingsStore, modal.apiKey)
                m1 == Subscribed(modal, s1)
                s2 == setModel(s1, m1.selectedModel)
            IN /\ settingsStore' = s2
               /\ modal' = [Subscribed(m1, s2) EXCEPT !.error = "", !.isValidating = TRUE,
                                                      !.before = settingsStore]

\* handleSave after its awaits (SettingsModal.svelte:50-66): the connection
\* test returned true or false, or the import failed.  testConnection returns
\* false without a request when the store holds no key (openaiService.ts:239).
TestReturns(outcome) ==
    /\ modal.isValidating
    /\ outcome = "valid" => ~NotConfigured(settingsStore.apiKey)
    /\ modal' = CASE outcome = "valid" ->
                       [modal EXCEPT !.open = FALSE, !.isValidating = FALSE]
                  [] outcome = "invalid" ->
                       [modal EXCEPT !.error = KeyInvalidMessage, !.isValidating = FALSE]
                  [] outcome = "throws" ->
                       [modal EXCEPT !.error = KeyFailedMessage, !.isValidating = FALSE]
    /\ UNCHANGED <<settingsStore, serviceVars, pageVars>>

\* the Cancel button and the backdrop (SettingsModal.svelte:69-77)
handleClose ==
    /\ modal.open
    /\ modal' = [modal EXCEPT !.open = FALSE, !.error = ""]
    /\ UNCHANGED <<settingsStore, serviceVars, pageVars>>

(***************************************************************************)
(* The page.                                                               *)
(***************************************************************************)
\* the user edits the input: bind:value, then oninput = debouncedConvert
\* (promptLoader.ts:117-124): the pending timer is cleared and a new one armed
debouncedConvert(text) ==
    /\ text # inputText
    /\ inputText' = text
    /\ conversionTimeout' = DebounceDelay
    /\ UNCHANGED <<settingsStore, modal, serviceVars, outputText, isConverting, error>>

\* the "Clear All" button (promptLoader.ts:180-185); assigning inputText raises
\* no input event, and neither the debounce timer nor the service is touched
clearAll ==
    /\ inputText' = ""
    /\ outputText' = ""
    /\ error' = ""
    /\ UNCHANGED <<settingsStore, modal, serviceVars, isConverting, conversionTimeout>>

\* time passes with no edit until the debounce timer is due
QuietPeriodElapses ==
    /\ conversionTimeout > 0
    /\ conversionTimeout' = 0
    /\ UNCHANGED <<settingsStore, modal, serviceVars, inputText, outputText, isConverting, error>>

\* the debounce timer fires (promptLoader.ts:119-123): cancelInFlight, then
\* convertReference (promptLoader.ts:126-142) up to its await; at most max
\* conversions are started in one behaviour
convertReference(max) ==
    /\ conversionTimeout = 0
    /\ conversionTimeout' = NoTimer
    /\ UNCHANGED <<settingsStore, modal, config, inputText>>
    /\ LET ab == cancelInFlight(aborted, inflightAbortController)
       IN IF Trim(inputText) = ""
          THEN /\ outputText' = ""
               /\ error' = ""
               /\ aborted' = ab
               /\ inflightAbortController' = Null
               /\ UNCHANGED <<isConverting, client, resultCache, timeoutIds, calls,
                              cachedPromptTemplate>>
          ELSE IF ~settingsStore.isConfigured
          THEN /\ error' = PageNotConfiguredMessage
               /\ aborted' = ab
               /\ inflightAbortController' = Null
               /\ UNCHANGED <<outputText, isConverting, client, resultCache, timeoutIds,
                              calls, cachedPromptTemplate>>
          ELSE /\ Len(calls) < max
               /\ convertToBibTeX(inputText, "page", ab, Null)

(***************************************************************************)
(* The service, called by another caller than the page.                    *)
(***************************************************************************)
ConvertDirect(apaReference, max) ==
    /\ Len(calls) < max
    /\ convertToBibTeX(apaReference, "direct", aborted, inflightAbortController)
    /\ UNCHANGED <<settingsStore, modal, config, inputText, conversionTimeout>>

\* the first call of a service that is called once
ConvertOnce(apaReference) ==
    /\ calls = <<>>
    /\ convertToBibTeX(apaReference, "direct", aborted, inflightAbortController)
    /\ UNCHANGED <<settingsStore, modal, config, inputText, conversionTimeout>>

CancelInFlight ==
    /\ inflightAbortController # Null
    /\ aborted' = cancelInFlight(aborted, inflightAbortController)
    /\ inflightAbortController' = Null
    /\ UNCHANGED <<settingsStore, modal, config, client, resultCache, timeoutIds, calls,
                   cachedPromptTemplate, pageVars>>

(***************************************************************************)
(* Awaits resolving and timers firing.                                     *)
(***************************************************************************)
\* loadPromptTemplate after its fetch (promptLoader.ts:19-33), then
\* convertToBibTeX goes on to makeAPIRequest (openaiService.ts:94-97)
TemplateLoaded(c, ok) ==
    /\ calls[c].pc = "template"
    /\ cachedPromptTemplate' = IF ok THEN Trim(PromptFile) ELSE getDefaultPromptTemplate
    /\ makeAPIRequest(calls, c, 1, aborted, inflightAbortController)
    /\ UNCHANGED <<settingsStore, modal, config, client, resultCache, pageVars>>

\* the completion arrives (openaiService.ts:168-178), and with usable content
\* convertToBibTeX caches and returns it (openaiService.ts:99-107)
RequestResolves(c, content) ==
    /\ calls[c].pc = "request"
    /\ Ctl(c) \notin DOMAIN aborted
    /\ timeoutIds' = ClearTimeoutTimer(timeoutIds, Ctl(c))
    /\ inflightAbortController' = Null
    /\ IF NoContent(content)
       THEN /\ Catch(c, NoContentError)
            /\ UNCHANGED resultCache
       ELSE LET bibtexResult == cleanBibTeXResponse(content)
            IN /\ resultCache' = CachePut(resultCache, calls[c].input, bibtexResult)
               /\ Finish([calls EXCEPT ![c].content = content,
                                        ![c].outcomes = Append(@, "content")],
                         c, Success(bibtexResult))
    /\ UNCHANGED <<settingsStore, modal, config, client, aborted, cachedPromptTemplate, inputText,
                   conversionTimeout>>

\* the request fails on its own; the catch block leaves the timeout timer armed
RequestRejects(c, err) ==
    /\ calls[c].pc = "request"
    /\ Ctl(c) \notin DOMAIN aborted
    /\ Catch(c, err)
    /\ UNCHANGED <<settingsStore, modal, config, client, resultCache, inflightAbortController, aborted,
                   timeoutIds, cachedPromptTemplate, inputText, conversionTimeout>>

\* the request's signal was aborted: the await rejects
RequestAborted(c) ==
    /\ calls[c].pc = "request"
    /\ Ctl(c) \in DOMAIN aborted
    /\ Catch(c, AbortError(aborted[Ctl(c)]))
    /\ aborted' = Settled(aborted, Ctl(c))
    /\ UNCHANGED <<settingsStore, modal, config, client, resultCache, inflightAbortController,
                   timeoutIds, cachedPromptTemplate, inputText, conversionTimeout>>

\* the backoff timer fires: makeAPIRequest(prompt, attempt + 1) (openaiService.ts:184)
BackoffFires(c) ==
    /\ calls[c].pc = "backoff"
    /\ makeAPIRequest(calls, c, calls[c].attempt + 1, aborted, inflightAbortController)
    /\ UNCHANGED <<settingsStore, modal, config, client, resultCache, cachedPromptTemplate, pageVars>>

\* a timeout timer fires (openaiService.ts:145-151)
TimeoutFires(t) ==
    /\ t \in timeoutIds
    /\ timeoutIds' = timeoutIds \ {t}
    /\ aborted' = Abort(aborted, TimerTarget(t, inflightAbortController), "timeout")
    /\ UNCHANGED <<settingsStore, modal, config, client, resultCache, inflightAbortController, calls,
                   cachedPromptTemplate, pageVars>>

(***************************************************************************)
(* Spec: a session of the page.  The user edits the input (never to the    *)
(* empty text: the input is empty only as construction or "Clear All" left *)
(* it) and clears; the debounce timer fires; a request is answered with a  *)
(* text or aborted (by a newer request, by the page, by its timeout).      *)
(***************************************************************************)
Next ==
    \/ \E text \in PageInputs : debouncedConvert(text)
    \/ QuietPeriodElapses
    \/ convertReference(MaxCalls)
    \/ clearAll
    \/ \E c \in DOMAIN calls : \E ok \in BOOLEAN : TemplateLoaded(c, ok)
    \/ \E c \in DOMAIN calls : \E content \in PageContents : RequestResolves(c, content)
    \/ \E c \in DOMAIN calls : RequestAborted(c)
    \/ \E c \in DOMAIN calls : BackoffFires(c)
    \/ \E t \in timeoutIds : TimeoutFires(t)

Spec == InitStored /\ [][Next]_vars

(***************************************************************************)
(* SpecPage: the page with a stored key and model, one conversion.  The    *)
(* user selects a model, edits, waits.                                     *)
(***************************************************************************)
NextPage ==
    \/ \E model \in Models : SetModel(model)
    \/ \E text \in PageInputs : debouncedConvert(text)
    \/ QuietPeriodElapses
    \/ convertReference(MaxPageCalls)
    \/ \E c \in DOMAIN calls : \E ok \in BOOLEAN : TemplateLoaded(c, ok)
    \/ \E c \in DOMAIN calls : \E content \in PageContents : RequestResolves(c, content)
    \/ \E c \in DOMAIN calls : RequestAborted(c)
    \/ \E c \in DOMAIN calls : BackoffFires(c)
    \/ \E t \in timeoutIds : TimeoutFires(t)

SpecPage == InitPage /\ [][NextPage]_vars

(***************************************************************************)
(* SpecService: one OpenAIService instance and its callers, overlapping.   *)
(***************************************************************************)
NextService ==
    \/ \E k \in FewApiKeys : SetApiKey(k)
    \/ ClearApiKey
    \/ \E apaReference \in FewInputs : ConvertDirect(apaReference, MaxCalls)
    \/ CancelInFlight
    \/ \E c \in DOMAIN calls : \E ok \in BOOLEAN : TemplateLoaded(c, ok)
    \/ \E c \in DOMAIN calls : \E content \in FewContents : RequestResolves(c, content)
    \/ \E c \in DOMAIN calls : \E err \in FewRejections : RequestRejects(c, err)
    \/ \E c \in DOMAIN calls : RequestAborted(c)
    \/ \E c \in DOMAIN calls : BackoffFires(c)
    \/ \E t \in timeoutIds : TimeoutFires(t)

SpecService == InitDefault /\ [][NextService]_vars

(***************************************************************************)
(* SpecCall: one conversion at a time, from the page or from another       *)
(* caller, against every input, key, content and failure.                  *)
(***************************************************************************)
NextCall ==
    \/ \E k \in ApiKeys : SetApiKey(k)
    \/ ClearApiKey
    \/ \E text \in Inputs : debouncedConvert(text)
    \/ QuietPeriodElapses
    \/ convertReference(MaxSingle)
    \/ \E apaReference \in Inputs : ConvertDirect(apaReference, MaxSingle)
    \/ CancelInFlight
    \/ \E c \in DOMAIN calls : \E ok \in BOOLEAN : TemplateLoaded(c, ok)
    \/ \E c \in DOMAIN calls : \E content \in Contents : RequestResolves(c, content)
    \/ \E c \in DOMAIN calls : \E err \in Rejections : RequestRejects(c, err)
    \/ \E c \in DOMAIN calls : RequestAborted(c)
    \/ \E c \in DOMAIN calls : BackoffFires(c)
    \/ \E t \in timeoutIds : TimeoutFires(t)

SpecCall == InitDefault /\ [][NextCall]_vars

(***************************************************************************)
(* SpecRetry: one conversion by a service constructed with maxRetries from *)
(* 0 to MaxRetries, every attempt answered with a text, with no content or *)
(* with a failure of some class, or timing out.                            *)
(***************************************************************************)
NextRetry ==
    \/ ConvertOnce("a")
    \/ \E c \in DOMAIN calls : \E ok \in BOOLEAN : TemplateLoaded(c, ok)
    \/ \E c \in DOMAIN calls : \E content \in {"", "@a"} : RequestResolves(c, content)
    \/ \E c \in DOMAIN calls : \E err \in ClassRejections : RequestRejects(c, err)
    \/ \E c \in DOMAIN calls : RequestAborted(c)
    \/ \E c \in DOMAIN calls : BackoffFires(c)
    \/ \E t \in timeoutIds : TimeoutFires(t)

SpecRetry == InitRetry /\ [][NextRetry]_vars

(***************************************************************************)
(* SpecSettings: a long-lived service while the settings change: keys are  *)
(* stored, replaced and cleared and models selected between conversions.   *)
(***************************************************************************)
NextSettings ==
    \/ \E k \in ChangingApiKeys : SetApiKey(k)
    \/ ClearApiKey
    \/ \E model \in Models : SetModel(model)
    \/ \E apaReference \in PageInputs : ConvertDirect(apaReference, MaxKeyCalls)
    \/ \E c \in DOMAIN calls : \E ok \in BOOLEAN : TemplateLoaded(c, ok)
    \/ \E c \in DOMAIN calls : \E content \in PageContents : RequestResolves(c, content)
    \/ \E c \in DOMAIN calls : RequestAborted(c)
    \/ \E c \in DOMAIN calls : BackoffFires(c)
    \/ \E t \in timeoutIds : TimeoutFires(t)

SpecSettings == InitDefault /\ [][NextSettings]_vars

(***************************************************************************)
(* SpecLive: overlapping conversions of the same input by one service,     *)
(* with the environment doing its part: a fetch of the template settles, a *)
(* request is answered, fails or has its timeout timer fire, the rejection *)
(* of an aborted request is delivered, and a backoff timer fires.          *)
(***************************************************************************)
NextLive ==
    \/ ConvertDirect("a", MaxLiveCalls)
    \/ CancelInFlight
    \/ \E c \in DOMAIN calls : \E ok \in BOOLEAN : TemplateLoaded(c, ok)
    \/ \E c \in DOMAIN calls : \E content \in LiveContents : RequestResolves(c, content)
    \/ \E c \in DOMAIN calls : RequestRejects(c, Thrown(TRUE, "Connection error."))
    \/ \E c \in DOMAIN calls : RequestAborted(c)
    \/ \E c \in DOMAIN calls : BackoffFires(c)
    \/ \E t \in timeoutIds : TimeoutFires(t)

\* the current attempt of call c is answered, fails, or its timeout timer fires
AttemptSettles(c) ==
    /\ c \in DOMAIN calls
    /\ \/ \E content \in LiveContents : RequestResolves(c, content)
       \/ RequestRejects(c, Thrown(TRUE, "Connection error."))
       \/ \E t \in timeoutIds : t.ctl = Ctl(c) /\ TimeoutFires(t)

\* what the event loop and the network owe to call c
FairTo(c) ==
    /\ WF_vars(c \in DOMAIN calls /\ \E ok \in BOOLEAN : TemplateLoaded(c, ok))
    /\ WF_vars(AttemptSettles(c))
    /\ WF_vars(c \in DOMAIN calls /\ RequestAborted(c))
    /\ WF_vars(c \in DOMAIN calls /\ BackoffFires(c))

SpecLive == InitLive /\ [][NextLive]_vars /\ \A c \in 1..MaxLiveCalls : FairTo(c)

(***************************************************************************)
(* SpecModal: the settings modal over the settings an earlier session      *)
(* stored: the user opens it, edits the key, saves, closes.                *)
(***************************************************************************)
NextModal ==
    \/ OpenSettings
    \/ \E k \in ModalKeys : TypeApiKey(k)
    \/ handleSave
    \/ \E outcome \in {"valid", "invalid", "throws"} : TestReturns(outcome)
    \/ handleClose

SpecModal == InitStored /\ [][NextModal]_vars

(***************************************************************************)
(* Properties.                                                             *)
(***************************************************************************)
\* the call a step starts, when it starts one
Started == Len(calls') = Len(calls) + 1
NewestCall == calls'[Len(calls')]

\* the step is the debounce timer firing (only convertReference disarms it)
DebounceFired == conversionTimeout # NoTimer /\ conversionTimeout' = NoTimer

\* C1 (as claimed): when a conversion issued by the page resolves after a later
\* one was issued by the page, its resolution writes neither outputText nor error.
C1_SupersededResolutionWritesNothing ==
    [][\A c \in DOMAIN calls :
          ( /\ calls[c].origin = "page"
            /\ calls[c].pc # "done"
            /\ calls'[c].pc = "done"
            /\ \E d \in DOMAIN calls : d > c /\ calls[d].origin = "page" )
          => (outputText' = outputText /\ error' = error)]_vars

\* C2: every request that is outstanding and not aborted is the one the service
\* tracks, so at most one request is outstanding and not aborted.
C2_AtMostOneLiveRequest ==
    LET live == {c \in DOMAIN calls : calls[c].pc = "request" /\ Ctl(c) \notin DOMAIN aborted}
    IN /\ \A c \in live : inflightAbortController = Ctl(c)
       /\ Cardinality(live) <= 1

\* C2 witness: two requests are outstanding, the older one aborted by the newer.
C2_Witness ==
    \E c, d \in DOMAIN calls :
        /\ c # d
        /\ calls[c].pc = "request" /\ calls[d].pc = "request"
        /\ Ctl(c) \in DOMAIN aborted /\ aborted[Ctl(c)] = "cancelInFlight"
        /\ Ctl(d) \notin DOMAIN aborted

\* C3 (as claimed): with a key configured, a call whose trimmed input equals that
\* of an earlier call that returned success returns at once, without a network
\* attempt, the text an earlier call returned for that input.
C3_SecondCallServedFromCache ==
    [][\A c \in DOMAIN calls :
          ( /\ Started
            /\ settingsStore.apiKey # ""
            /\ calls[c].pc = "done"
            /\ calls[c].result.success
            /\ Trim(calls[c].input) = Trim(NewestCall.input) )
          => /\ NewestCall.pc = "done"
             /\ NewestCall.attempt = 0
             /\ NewestCall.result.success
             /\ \E e \in DOMAIN calls :
                   /\ calls[e].pc = "done"
                   /\ calls[e].result.success
                   /\ Trim(calls[e].input) = Trim(NewestCall.input)
                   /\ calls[e].result.bibtex = NewestCall.result.bibtex]_vars

\* C4: a call whose first two attempts failed and whose third returned content
\* has resolved with success after exactly 3 attempts, the second wait longer
\* than the first.
C4_ThirdAttemptSucceeds ==
    \A c \in DOMAIN calls :
        calls[c].outcomes = <<"failed", "failed", "content">>
        => /\ calls[c].pc = "done"
           /\ calls[c].result.success
           /\ calls[c].attempt = 3
           /\ Len(calls[c].waits) = 2
           /\ calls[c].waits[2] > calls[c].waits[1]

\* C4 witness: such a call exists.
C4_Witness ==
    \E c \in DOMAIN calls :
        /\ calls[c].outcomes = <<"failed", "failed", "content">>
        /\ calls[c].waits = <<1000, 2000>>

\* C5 (as claimed): a call all of whose attempts failed has resolved with a
\* failure whose message is not empty.
C5_FailureMessageNonEmpty ==
    \A c \in DOMAIN calls :
        ( /\ Len(calls[c].outcomes) = config.maxRetries
          /\ \A i \in DOMAIN calls[c].outcomes : calls[c].outcomes[i] = "failed" )
        => /\ calls[c].pc = "done"
           /\ ~calls[c].result.success
           /\ calls[c].result.error # ""

\* C6: with no API key in the store, a convertToBibTeX call returns the
\* not-configured failure at once and leaves client, template, cache, request
\* tracking and timers as they were; and convertReference with text to convert
\* reports the missing key without a convertToBibTeX call.
C6_NotConfigured ==
    [][ /\ (Started /\ settingsStore.apiKey = "")
           => /\ NewestCall.pc = "done"
              /\ NewestCall.result = Failure(NotConfiguredMessage)
              /\ NewestCall.attempt = 0
              /\ UNCHANGED <<client, cachedPromptTemplate, resultCache, timeoutIds,
                             aborted, inflightAbortController>>
        /\ (DebounceFired /\ settingsStore.apiKey = "" /\ Trim(inputText) # "")
           => /\ error' = PageNotConfiguredMessage
              /\ UNCHANGED <<calls, client, cachedPromptTemplate, resultCache, timeoutIds>>
      ]_vars

\* C6 witness: a call was answered not-configured, and the page reports the
\* missing key for a text the user typed.
C6_Witness ==
    /\ \E c \in DOMAIN calls :
          /\ calls[c].pc = "done"
          /\ calls[c].result = Failure(NotConfiguredMessage)
          /\ Trim(calls[c].input) # ""
    /\ error = PageNotConfiguredMessage
    /\ settingsStore.apiKey = ""

C8_CancelledCallIsDiscarded ==
    [][\A c \in DOMAIN calls :
          (calls[c].pc = "backoff" /\ calls[c].caught = AbortError("cancelInFlight"))
          => calls'[c] = calls[c]]_vars

\* C9: every outstanding request has its timeout timer of config.timeout ms
\* pending or its signal aborted; the timer of an outstanding request aborts it
\* when it fires; a request aborted by its timer fails, is retried while attempts
\* remain and otherwise resolves the call with a failure.
C9_TimeoutAbortsAndRetries ==
    /\ [](\A c \in DOMAIN calls :
            calls[c].pc = "request"
            => \/ [ctl |-> Ctl(c), ms |-> 30000] \in timeoutIds
               \/ Ctl(c) \in DOMAIN aborted)
    /\ [][\A c \in DOMAIN calls :
            /\ ( /\ calls[c].pc = "request"
                 /\ \E t \in timeoutIds \ timeoutIds' : t.ctl = Ctl(c)
                 /\ calls' = calls )
               => Ctl(c) \in DOMAIN aborted'
            /\ ( /\ calls[c].pc = "request"
                 /\ Ctl(c) \in DOMAIN aborted
                 /\ aborted[Ctl(c)] = "timeout"
                 /\ calls'[c] # calls[c] )
               => /\ calls'[c].outcomes = Append(calls[c].outcomes, "failed")
                  /\ IF calls[c].attempt < 3
                     THEN calls'[c].pc = "backoff"
                     ELSE calls'[c].pc = "done" /\ ~calls'[c].result.success]_vars

\* C9 witness: a call resolved with a failure after its last attempt timed out.
C9_Witness ==
    \E c \in DOMAIN calls :
        /\ calls[c].pc = "done"
        /\ calls[c].attempt = 3
        /\ calls[c].caught = AbortError("timeout")
        /\ ~calls[c].result.success

\* C10 (as claimed): a call that received a content made of an opening fence
\* (the fence with "bibtex" in any letter case, or the bare fence), a line break,
\* a text, a line break and the closing fence, with or without a line break
\* after it, returns exactly the text; a content without fences is returned
\* trimmed.
C10_FencedContentIsUnwrapped ==
    \A c \in DOMAIN calls :
        (calls[c].pc = "done" /\ calls[c].content # "")
        => /\ \A open \in {FenceBibtex, Fence \o "BibTeX", Fence} :
              \A inner \in {"@a", "@b"} :
              \A after \in {"", "\n"} :
                 calls[c].content = open \o "\n" \o inner \o "\n" \o Fence \o after
                 => calls[c].result = Success(inner)
           /\ \A before \in {"", " "} :
              \A inner \in {"@a", "@b"} :
              \A after \in {"", "\n"} :
                 calls[c].content = before \o inner \o after
                 => calls[c].result = Success(inner)

\* the call made at least one attempt and every attempt it made failed
AllAttemptsFailed(c) ==
    /\ calls[c].outcomes # <<>>
    /\ \A i \in DOMAIN calls[c].outcomes : calls[c].outcomes[i] = "failed"

\* C11 (as claimed): a call of a service configured with maxRetries = N never
\* makes more than N attempts, and has made exactly N when it returned after
\* every attempt failed.
C11_AttemptsBoundedByMaxRetries ==
    \A c \in DOMAIN calls :
        /\ calls[c].attempt <= config.maxRetries
        /\ (calls[c].pc = "done" /\ AllAttemptsFailed(c))
           => calls[c].attempt = config.maxRetries

\* C12 (as claimed): every cache entry maps the trimmed input of a call that
\* returned success to the text that call returned; no entry is removed; and an
\* entry is added or replaced only in the step in which a call of that trimmed
\* input returns success, that call having non-empty input and none of its
\* requests cancelled.
C12_CachePopulatedOnlyOnSuccess ==
    /\ [](\A k \in DOMAIN resultCache :
            \E c \in DOMAIN calls :
                /\ calls[c].pc = "done"
                /\ calls[c].result.success
                /\ Trim(calls[c].input) = k
                /\ calls[c].result.bibtex = resultCache[k])
    /\ [][ /\ DOMAIN resultCache \subseteq DOMAIN resultCache'
           /\ \A k \in DOMAIN resultCache' :
                 (k \notin DOMAIN resultCache \/ resultCache'[k] # resultCache[k])
                 => \E c \in DOMAIN calls :
                       /\ calls[c].pc # "done"
                       /\ calls'[c].pc = "done"
                       /\ calls'[c].result = Success(resultCache'[k])
                       /\ Trim(calls[c].input) = k
                       /\ k # ""
                       /\ ~calls'[c].cancelled ]_vars

C14_AuthFailureNotRetried ==
    \A c \in DOMAIN calls :
        (calls[c].caught.isError /\ Includes(calls[c].caught.message, "Incorrect API key"))
        => /\ calls[c].pc = "done"
           /\ calls[c].result =
                Failure("Invalid API key. Please check your OpenAI API key in settings.")

\* C15: a completion without content makes its attempt a failed one: the call
\* waits to retry while attempts remain and otherwise returns a failure; a call
\* that returned success after a request received a content that is not empty,
\* and a call all of whose attempts failed did not return success.
C15_NoContentIsFailedAttempt ==
    /\ [](\A c \in DOMAIN calls :
            /\ (calls[c].pc = "done" /\ calls[c].result.success /\ calls[c].attempt > 0)
               => calls[c].content # ""
            /\ (calls[c].pc = "done" /\ AllAttemptsFailed(c))
               => ~calls[c].result.success)
    /\ [][\A c \in DOMAIN calls :
            ( /\ calls[c].pc = "request"
              /\ calls'[c].attempt = calls[c].attempt
              /\ calls'[c].caught = NoContentError )
            => /\ calls'[c].outcomes = Append(calls[c].outcomes, "failed")
               /\ IF calls[c].attempt < MaxAttempts(config)
                  THEN /\ calls'[c].pc = "backoff"
                       /\ calls'[c].waits = Append(calls[c].waits, 1000 * calls[c].attempt)
                  ELSE /\ calls'[c].pc = "done"
                       /\ calls'[c].result =
                            Failure("No response content received from OpenAI")]_vars

\* C15 witness: every attempt of a call of a service with maxRetries 3 was
\* answered without content, and the call returned a failure.
C15_Witness ==
    \E c \in DOMAIN calls :
        /\ config.maxRetries = 3
        /\ calls[c].pc = "done"
        /\ calls[c].attempt = 3
        /\ calls[c].caught = NoContentError
        /\ calls[c].waits = <<1000, 2000>>
        /\ ~calls[c].result.success

\* C16 (as claimed): a call that returned because its last attempt failed with a
\* rate-limit error returns the rate-limit message, and one that failed with
\* quota exhaustion returns the quota message, whatever else the error's text
\* contains.
C16_FailureMessageByClass ==
    \A c \in DOMAIN calls :
        (calls[c].pc = "done" /\ AllAttemptsFailed(c) /\ calls[c].caught.isError)
        => /\ Includes(calls[c].caught.message, "rate limit")
              => calls[c].result =
                   Failure("Rate limit exceeded. Please wait a moment and try again.")
           /\ Includes(calls[c].caught.message, "insufficient_quota")
              => calls[c].result =
                   Failure("API quota exceeded. Please check your OpenAI billing.")

\* C17 (as claimed): a conversion is never blocked indefinitely by a template
\* fetch that does not answer: while a call awaits loadPromptTemplate, a timer
\* of that call is pending, whose firing ends the wait.
C17_TemplateFetchIsBounded ==
    \A c \in DOMAIN calls :
        calls[c].pc = "template" => \E t \in timeoutIds : t.ctl[1] = c

C19_RequestUsesSelectedModel ==
    [][\A c \in DOMAIN calls' :
          ( /\ calls'[c].pc = "request"
            /\ \/ c \notin DOMAIN calls
               \/ calls[c].pc # "request"
               \/ calls[c].attempt # calls'[c].attempt )
          => calls'[c].model = settingsStore'.model]_vars

\* C20 (as claimed): while the input is empty as clearAll left it (no edit of
\* Spec makes it empty), the output that clearAll emptied stays empty.
C20_ClearedOutputStaysEmpty ==
    [][(inputText = "" /\ outputText = "" /\ inputText' = "") => outputText' = ""]_vars

\* C21 (as claimed): the first wait of a call is 1000 ms and every later wait is
\* the double of the wait before it.
C21_BackoffExponential ==
    \A c \in DOMAIN calls :
        \A k \in DOMAIN calls[c].waits :
            calls[c].waits[k] = IF k = 1 THEN 1000 ELSE 2 * calls[c].waits[k - 1]

\* C22: a request is aborted by a timeout only when its own timer fires, and
\* otherwise only as the tracked request (cancelInFlight); the timer of an
\* attempt that has completed changes nothing when it fires; and what a call
\* has returned never changes.
C22_TimeoutLoserSuppressed ==
    [][ /\ \A k \in DOMAIN aborted' \ DOMAIN aborted :
              IF aborted'[k] = "timeout"
              THEN [ctl |-> k, ms |-> config.timeout] \in timeoutIds \ timeoutIds'
              ELSE k = inflightAbortController
        /\ \A t \in timeoutIds \ timeoutIds' :
              (~Outstanding(t.ctl) /\ calls' = calls)
              => UNCHANGED <<aborted, inflightAbortController, resultCache, outputText, error>>
        /\ \A c \in DOMAIN calls :
              calls[c].pc = "done" => calls'[c] = calls[c] ]_vars

\* C22 witness: an attempt failed on its own, leaving its timer armed; the timer
\* has fired since, while the request of another call is outstanding, and that
\* request is not aborted.
C22_Witness ==
    \E c, d \in DOMAIN calls :
        /\ c # d
        /\ calls[c].pc = "backoff"
        /\ calls[c].caught = Thrown(TRUE, "Connection error.")
        /\ \A t \in timeoutIds : t.ctl # Ctl(c)
        /\ calls[d].pc = "request"
        /\ Ctl(d) \notin DOMAIN aborted

\* C23 (as claimed): isConverting is true exactly when some convertReference of
\* the page still awaits its conversion.
C23_ConvertingIffAwaiting ==
    isConverting <=> \E c \in DOMAIN calls :
                        calls[c].origin = "page" /\ calls[c].pc # "done"

\* C25 (as claimed): a result with success = true carries a text that is not
\* empty and holds no fence marker.
C25_SuccessCarriesBareText ==
    \A c \in DOMAIN calls :
        (calls[c].pc = "done" /\ calls[c].result.success)
        => /\ calls[c].result.bibtex # ""
           /\ ~Includes(calls[c].result.bibtex, Fence)

\* C24 (as claimed): a call that sends its request at once sends it through a
\* client built with the key the settings store holds at the call.
C24_RequestUsesKeyAtCall ==
    [][(Started /\ NewestCall.pc = "request")
       => client' = <<settingsStore.apiKey>>]_vars

C27_CacheEntryNeverChanges ==
    [][\A k \in DOMAIN resultCache :
          k \in DOMAIN resultCache' /\ resultCache'[k] = resultCache[k]]_vars

\* the step is handleSave ending with an error: at once, or after the test
SaveEndedInError ==
    /\ modal'.error # "" /\ ~modal'.isValidating
    /\ modal.isValidating \/ modal'.error # modal.error

\* C28 (as claimed): when handleSave ends with an error, the store holds the
\* settings it held when handleSave started.
C28_FailedSaveLeavesStore ==
    [][SaveEndedInError => settingsStore' = modal'.before]_vars

\* C29 (as claimed): isConfigured is true exactly when the stored key is not
\* empty after trimming, and the service's check of the key (not configured
\* when the key is empty) agrees with isConfigured.
C29_ConfiguredAgrees ==
    /\ settingsStore.isConfigured <=> Trim(settingsStore.apiKey) # ""
    /\ NotConfigured(settingsStore.apiKey) <=> ~settingsStore.isConfigured

====
